---- MODULE Spec2Model ----
(***************************************************************************)
(* A model of the question retrieval, fallback and storage layer of the    *)
(* AI-based interview question generator: QuestionBank                     *)
(* (app/question_bank.py), QuestionGenerator (app/question_generator.py)   *)
(* and VectorStorage (app/vector_storage.py).                              *)
(*                                                                         *)
(* Python values are modelled with their type: a str is PyStr(chars) with  *)
(* chars a sequence of one-character strings, a list is PyList(items).     *)
(* A call's outcome is a record: Return(value), ReturnNone or Raise(kind). *)
(***************************************************************************)
EXTENDS Integers, Sequences, FiniteSets, TLC

VARIABLES
    \* ---- QuestionBank.get_questions applied to drawn arguments
    bank_call,          \* the arguments of the call and its outcome
    \* ---- QuestionGenerator
    credential,         \* OPENAI_API_KEY as __init__ found it
    use_api,            \* self.use_api
    api_key_valid,      \* self.api_key_valid: "True", "False" or "unset"
    last_api_call,      \* self.last_api_call
    now,                \* time.time()
    gen_call,           \* the last generate call: arguments, trace, outcome
    \* ---- VectorStorage
    use_local_storage,  \* self.use_local_storage: "True" or "unset"
    file,               \* data/questions_storage.json
    vectorstore,        \* the documents of the vector index
    clock,              \* datetime.now()
    store_call,         \* the last storage call: arguments, trace, outcome
    \* ---- two processes storing into the same file
    writers,            \* each process's position in _store_questions_locally
    \* ---- the front ends (routes.py, main.py)
    front               \* the last request: arguments, steps taken, response

bank_vars == <<bank_call>>
gen_vars == <<credential, use_api, api_key_valid, last_api_call, now, gen_call>>
store_vars == <<use_local_storage, file, vectorstore, clock, store_call>>
race_vars == <<writers>>
front_vars == <<front>>
vars == <<bank_vars, gen_vars, store_vars, race_vars, front_vars>>

(***************************************************************************)
(* Python values and outcomes                                              *)
(***************************************************************************)
PyStr(chars) == [t |-> "str", v |-> chars, items |-> <<>>]
PyList(items) == [t |-> "list", v |-> <<>>, items |-> items]

\* bool(x) of a str or a list: non-empty
Truthy(x) == IF x.t = "list" THEN Len(x.items) > 0 ELSE Len(x.v) > 0
\* hash(x) is defined for a str and raises TypeError for a list
Hashable(x) == x.t # "list"

\* an outcome: the returned sequence, True or False, None, or the exception
Return(value) == [kind |-> "return", value |-> value, exc |-> "none"]
ReturnBool(b) == [kind |-> IF b THEN "True" ELSE "False", value |-> <<>>, exc |-> "none"]
ReturnNone == [kind |-> "return_none", value |-> <<>>, exc |-> "none"]
Raise(exc) == [kind |-> "raise", value |-> <<>>, exc |-> exc]
NoCall == [kind |-> "idle", value |-> <<>>, exc |-> "none"]

Min(a, b) == IF a <= b THEN a ELSE b
Max(a, b) == IF a >= b THEN a ELSE b

\* seq[:n]: the first n elements, and for a negative n all but the last -n
SlicePrefix(seq, n) ==
    IF n >= 0 THEN SubSeq(seq, 1, Min(n, Len(seq)))
    ELSE SubSeq(seq, 1, Max(Len(seq) + n, 0))

(***************************************************************************)
(* QuestionBank                                                            *)
(***************************************************************************)
PythonDeveloper == <<"P","y","t","h","o","n"," ","D","e","v","e","l","o","p","e","r">>
DataScientist == <<"D","a","t","a"," ","S","c","i","e","n","t","i","s","t">>
EntryLevel == <<"E","n","t","r","y","-","l","e","v","e","l">>
MidLevel == <<"M","i","d","-","l","e","v","e","l">>

Digits == <<"0","1","2","3","4","5","6","7","8","9">>

\* The i-th question text of a category list.  The texts are abbreviated to
\* four characters (role, level, category, index); all are distinct, as the
\* texts of the bank are.
BankText(r, l, c, i) == <<r, l, c, Digits[i]>>
TechnicalList(r, l) == [i \in 1..10 |-> BankText(r, l, "T", i)]
BehavioralList(r, l) == [i \in 1..5 |-> BankText(r, l, "B", i)]
BankEntry(r, l) == [Technical |-> TechnicalList(r, l), Behavioral |-> BehavioralList(r, l)]

\* self.questions
questions ==
    (PyStr(PythonDeveloper) :> (PyStr(EntryLevel) :> BankEntry("P", "E")
                                @@ PyStr(MidLevel) :> BankEntry("P", "M")))
    @@ (PyStr(DataScientist) :> (PyStr(EntryLevel) :> BankEntry("D", "E")))

\* (a variant of the loop that visits "Behavioral" first)
BehavioralFirst(entry) ==
    (IF "Behavioral" \in DOMAIN entry THEN entry.Behavioral ELSE <<>>)
    \o (IF "Technical" \in DOMAIN entry THEN entry.Technical ELSE <<>>)

\* the loop over ["Technical", "Behavioral"] with questions.extend
ExtendCategories(entry) ==
    (IF "Technical" \in DOMAIN entry THEN entry.Technical ELSE <<>>)
    \o (IF "Behavioral" \in DOMAIN entry THEN entry.Behavioral ELSE <<>>)

\* (variants of the two defaults)
DefaultRoleDataScientist == PyStr(DataScientist)
DefaultLevelMid == PyStr(MidLevel)

\* "Python Developer" and "Entry-level", the substituted defaults
DefaultRole == PyStr(PythonDeveloper)
DefaultLevel == PyStr(EntryLevel)

\* QuestionBank.get_questions.  `x not in dict` hashes x first.
get_questions(job_role, experience_level, num_questions) ==
    IF ~Hashable(job_role) THEN Raise("TypeError")
    ELSE LET role == IF job_role \notin DOMAIN questions THEN DefaultRole ELSE job_role
         IN  IF ~Hashable(experience_level) THEN Raise("TypeError")
             ELSE LET level == IF experience_level \notin DOMAIN questions[role]
                               THEN DefaultLevel ELSE experience_level
                  IN  Return(SlicePrefix(ExtendCategories(questions[role][level]),
                                         num_questions))

(***************************************************************************)
(* str methods                                                             *)
(***************************************************************************)
Whitespace == {" ", "\n", "\t", "\r", "\f"}

\* s.find(c) and s.rfind(c) for a one-character c: a 0-based index, or -1
Find(s, c) ==
    IF \E i \in 1..Len(s) : s[i] = c
    THEN (CHOOSE i \in 1..Len(s) : s[i] = c /\ \A j \in 1..(i-1) : s[j] # c) - 1
    ELSE -1
RFind(s, c) ==
    IF \E i \in 1..Len(s) : s[i] = c
    THEN (CHOOSE i \in 1..Len(s) : s[i] = c /\ \A j \in (i+1)..Len(s) : s[j] # c) - 1
    ELSE -1

\* s[a:b] for 0 <= a <= b <= len(s)
Slice(s, a, b) == SubSeq(s, a + 1, b)

RECURSIVE LStrip(_)
LStrip(s) == IF s # <<>> /\ Head(s) \in Whitespace THEN LStrip(Tail(s)) ELSE s
RECURSIVE RStrip(_)
RStrip(s) ==
    IF s # <<>> /\ s[Len(s)] \in Whitespace THEN RStrip(SubSeq(s, 1, Len(s) - 1)) ELSE s
\* s.strip()
Strip(s) == RStrip(LStrip(s))

\* s.split('\n'): the pieces between the line breaks, empty pieces included
RECURSIVE SplitFrom(_, _, _)
SplitFrom(s, i, cur) ==
    IF i > Len(s) THEN <<cur>>
    ELSE IF s[i] = "\n" THEN <<cur>> \o SplitFrom(s, i + 1, <<>>)
    ELSE SplitFrom(s, i + 1, Append(cur, s[i]))
SplitLines(s) == SplitFrom(s, 1, <<>>)

StartsWithAt(s, i, pat) ==
    /\ i + Len(pat) - 1 <= Len(s)
    /\ \A k \in 1..Len(pat) : s[i + k - 1] = pat[k]

\* s.replace(pat, ""): the non-overlapping occurrences, left to right
RECURSIVE RemoveFrom(_, _, _)
RemoveFrom(s, i, pat) ==
    IF i > Len(s) THEN <<>>
    ELSE IF StartsWithAt(s, i, pat) THEN RemoveFrom(s, i + Len(pat), pat)
    ELSE <<s[i]>> \o RemoveFrom(s, i + 1, pat)
Remove(s, pat) == RemoveFrom(s, 1, pat)

\* [f(x) for x in seq] and [x for x in seq if x]
MapSeq(seq, F(_)) == [i \in 1..Len(seq) |-> F(seq[i])]
RECURSIVE NonEmptyOnly(_)
NonEmptyOnly(seq) ==
    IF seq = <<>> THEN <<>>
    ELSE (IF Head(seq) # <<>> THEN <<Head(seq)>> ELSE <<>>) \o NonEmptyOnly(Tail(seq))

(***************************************************************************)
(* json.loads: the decoder's scanner on a sequence of characters.  A value  *)
(* keeps its Python type; only strings and lists keep their contents, as    *)
(* the callers read nothing else.  The responses of the model hold no       *)
(* exponent and no \b or \u escape, which the scanner does not cover.       *)
(***************************************************************************)
JsonWs == {" ", "\n", "\t", "\r"}
DigitSet == {"0","1","2","3","4","5","6","7","8","9"}
Fail == [ok |-> FALSE, val |-> <<>>, next |-> 0]
Ok(val, next) == [ok |-> TRUE, val |-> val, next |-> next]

RECURSIVE SkipWs(_, _)
SkipWs(s, i) == IF i <= Len(s) /\ s[i] \in JsonWs THEN SkipWs(s, i + 1) ELSE i

RECURSIVE SkipDigits(_, _)
SkipDigits(s, i) == IF i <= Len(s) /\ s[i] \in DigitSet THEN SkipDigits(s, i + 1) ELSE i

\* the characters of a string after its opening quote
RECURSIVE ScanString(_, _, _)
ScanString(s, i, acc) ==
    IF i > Len(s) THEN Fail
    ELSE IF s[i] = "\"" THEN Ok(PyStr(acc), i + 1)
    ELSE IF s[i] \in {"\n", "\t", "\r", "\f"} THEN Fail
    ELSE IF s[i] = "\\"
         THEN IF i + 1 > Len(s) THEN Fail
              ELSE IF s[i + 1] \in {"\"", "\\", "/"}
                   THEN ScanString(s, i + 2, Append(acc, s[i + 1]))
              ELSE IF s[i + 1] = "n" THEN ScanString(s, i + 2, Append(acc, "\n"))
              ELSE IF s[i + 1] = "t" THEN ScanString(s, i + 2, Append(acc, "\t"))
              ELSE IF s[i + 1] = "r" THEN ScanString(s, i + 2, Append(acc, "\r"))
              ELSE IF s[i + 1] = "f" THEN ScanString(s, i + 2, Append(acc, "\f"))
              ELSE Fail
    ELSE ScanString(s, i + 1, Append(acc, s[i]))

\* -?(0|[1-9][0-9]*)(\.[0-9]+)?
ScanNumber(s, i) ==
    LET j == IF s[i] = "-" THEN i + 1 ELSE i
    IN  IF j > Len(s) \/ s[j] \notin DigitSet THEN Fail
        ELSE LET k == IF s[j] = "0" THEN j + 1 ELSE SkipDigits(s, j)
                 m == IF k + 1 <= Len(s) /\ s[k] = "." /\ s[k + 1] \in DigitSet
                      THEN SkipDigits(s, k + 1) ELSE k
             IN  Ok([t |-> IF m = k THEN "int" ELSE "float", v |-> <<>>, items |-> <<>>], m)

ScanLiteral(s, i) ==
    IF StartsWithAt(s, i, <<"n","u","l","l">>) THEN Ok([t |-> "None", v |-> <<>>, items |-> <<>>], i + 4)
    ELSE IF StartsWithAt(s, i, <<"t","r","u","e">>) THEN Ok([t |-> "bool", v |-> <<>>, items |-> <<>>], i + 4)
    ELSE IF StartsWithAt(s, i, <<"f","a","l","s","e">>)
         THEN Ok([t |-> "bool", v |-> <<>>, items |-> <<>>], i + 5)
    ELSE Fail

RECURSIVE ScanValue(_, _)
RECURSIVE ScanArrayItems(_, _, _)
RECURSIVE ScanObjectItems(_, _)

\* scan_once at position i
ScanValue(s, i) ==
    IF i > Len(s) THEN Fail
    ELSE IF s[i] = "\"" THEN ScanString(s, i + 1, <<>>)
    ELSE IF s[i] = "["
         THEN LET j == SkipWs(s, i + 1)
              IN  IF j <= Len(s) /\ s[j] = "]" THEN Ok(PyList(<<>>), j + 1)
                  ELSE ScanArrayItems(s, j, <<>>)
    ELSE IF s[i] = "{"
         THEN LET j == SkipWs(s, i + 1)
              IN  IF j <= Len(s) /\ s[j] = "}" THEN Ok([t |-> "dict", v |-> <<>>, items |-> <<>>], j + 1)
                  ELSE ScanObjectItems(s, j)
    ELSE IF s[i] = "-" \/ s[i] \in DigitSet THEN ScanNumber(s, i)
    ELSE ScanLiteral(s, i)

\* JSONArray: a value, then "," and another value, or "]"
ScanArrayItems(s, i, acc) ==
    LET r == ScanValue(s, i)
    IN  IF ~r.ok THEN Fail
        ELSE LET j == SkipWs(s, r.next)
             IN  IF j > Len(s) THEN Fail
                 ELSE IF s[j] = "]" THEN Ok(PyList(Append(acc, r.val)), j + 1)
                 ELSE IF s[j] = ","
                      THEN ScanArrayItems(s, SkipWs(s, j + 1), Append(acc, r.val))
                 ELSE Fail

\* JSONObject: "key" : value, then "," and another pair, or "}"
ScanObjectItems(s, i) ==
    IF i > Len(s) \/ s[i] # "\"" THEN Fail
    ELSE LET k == ScanString(s, i + 1, <<>>)
         IN  IF ~k.ok THEN Fail
             ELSE LET c == SkipWs(s, k.next)
                  IN  IF c > Len(s) \/ s[c] # ":" THEN Fail
                      ELSE LET r == ScanValue(s, SkipWs(s, c + 1))
                           IN  IF ~r.ok THEN Fail
                               ELSE LET j == SkipWs(s, r.next)
                                    IN  IF j > Len(s) THEN Fail
                                        ELSE IF s[j] = "}"
                                             THEN Ok([t |-> "dict", v |-> <<>>, items |-> <<>>], j + 1)
                                        ELSE IF s[j] = ","
                                             THEN ScanObjectItems(s, SkipWs(s, j + 1))
                                        ELSE Fail

\* json.loads(s): one value between optional whitespace, else JSONDecodeError
json_loads(s) ==
    LET r == ScanValue(s, SkipWs(s, 1))
    IN  IF ~r.ok THEN Raise("JSONDecodeError")
        ELSE IF SkipWs(s, r.next) # Len(s) + 1 THEN Raise("JSONDecodeError")
        ELSE Return(r.val)

(***************************************************************************)
(* QuestionGenerator                                                       *)
(***************************************************************************)
min_delay == 2
MinQuestions == 1
MaxQuestions == 50

\* str(x) inside an f-string: the text of a str, the repr of a list of str
RECURSIVE ReprItems(_)
ReprItems(items) ==
    IF items = <<>> THEN <<>>
    ELSE <<"'">> \o Head(items).v \o <<"'">>
         \o (IF Len(items) > 1 THEN <<",", " ">> ELSE <<>>) \o ReprItems(Tail(items))
Format(x) == IF x.t = "str" THEN x.v ELSE <<"[">> \o ReprItems(x.items) \o <<"]">>

\* The five built-in questions of _get_local_questions; each template is
\* abbreviated to its number, the formatted arguments are kept.
DefaultQuestions(job_role, experience_level) ==
    << <<"1", " ">> \o Format(job_role),
       <<"2", " ">> \o Format(experience_level) \o <<" ">> \o Format(job_role),
       <<"3", " ">> \o Format(job_role),
       <<"4", " ">> \o Format(job_role),
       <<"5", " ">> \o Format(job_role) >>

\* (a variant without the except branch)
get_local_questions_unguarded(job_role, experience_level, num_questions) ==
    get_questions(job_role, experience_level, num_questions)

\* QuestionGenerator._get_local_questions
get_local_questions(job_role, experience_level, num_questions) ==
    LET r == get_questions(job_role, experience_level, num_questions)
    IN  IF r.kind = "raise" THEN Return(DefaultQuestions(job_role, experience_level))
        ELSE r

\* the chain of replace calls that strips the list markers of a line
StripMarkers(q) ==
    Remove(Remove(Remove(Remove(Remove(Remove(q, <<"-", " ">>), <<"1", ".">>),
        <<"2", ".">>), <<"3", ".">>), <<"4", ".">>), <<"5", ".">>)

\* "If no JSON found, try to extract questions from text"
ExtractLines(result) ==
    LET lines == NonEmptyOnly(MapSeq(SplitLines(result), Strip))
        bare == MapSeq(lines, StripMarkers)
    IN  NonEmptyOnly(MapSeq(bare, Strip))

IsListOfStr(x) == x.t = "list" /\ \A i \in 1..Len(x.items) : x.items[i].t = "str"
Texts(x) == [i \in 1..Len(x.items) |-> x.items[i].v]

\* The body of the inner try for a str result: the return value, or the
\* exception that the inner except turns into the local fallback.
ParseResponse(result, num_questions) ==
    LET start_idx == Find(result, "[")
        end_idx == RFind(result, "]") + 1
        by_lines == Return(SlicePrefix(ExtractLines(result), num_questions))
    IN  IF start_idx >= 0 /\ end_idx > start_idx
        THEN LET loaded == json_loads(Slice(result, start_idx, end_idx))
             IN  IF loaded.kind = "raise" THEN loaded
                 ELSE IF IsListOfStr(loaded.value)
                      THEN Return(SlicePrefix(Texts(loaded.value), num_questions))
                 ELSE by_lines
        ELSE by_lines

\* ---- bounds of the generator's environment
MaxTime == 7            \* the clock stops here
MaxCallDuration == 2    \* a remote call takes 0..MaxCallDuration
MaxSmallNum == 1        \* valid num_questions are 1..MaxSmallNum and 50

UnknownRole == <<"C","h","e","f">>
SQL == <<"S","Q","L">>
Resume == <<"C","V">>

\* The arguments of a call: the valid ones, and each way of failing one of
\* the two argument checks.
BaseArgs ==
    [job_role |-> PyStr(PythonDeveloper), experience_level |-> PyStr(MidLevel),
     skills |-> PyList(<<PyStr(SQL)>>), num_questions |-> MinQuestions,
     resume_text |-> PyStr(Resume)]
ValidArgs ==
    {[BaseArgs EXCEPT !.job_role = r, !.num_questions = n] :
        r \in {PyStr(PythonDeveloper), PyList(<<PyStr(UnknownRole)>>)},
        n \in (MinQuestions..MaxSmallNum) \cup {MaxQuestions}}
InvalidArgs ==
    { [BaseArgs EXCEPT !.job_role = PyStr(<<>>)],
      [BaseArgs EXCEPT !.job_role = PyList(<<>>)],
      [BaseArgs EXCEPT !.experience_level = PyStr(<<>>)],
      [BaseArgs EXCEPT !.skills = PyList(<<>>)],
      [BaseArgs EXCEPT !.num_questions = MinQuestions - 1],
      [BaseArgs EXCEPT !.num_questions = MaxQuestions + 1],
      [BaseArgs EXCEPT !.skills = PyList(<<>>), !.num_questions = MaxQuestions + 1] }
\* generate_questions takes no resume_text
GenArgs(op) ==
    ValidArgs \cup InvalidArgs
    \cup (IF op = "generate_personalized_questions"
          THEN {[BaseArgs EXCEPT !.resume_text = PyStr(<<>>)]} ELSE {})

\* The texts the completion service answers with.
RemoteResponses == {
    <<"[", "]">>,
    <<>>,
    <<" ", "\n", " ">>,
    <<"[", "\"", "a", "\"", ",", "\"", "b", "\"", ",", "\"", "c", "\"", "]">>,
    <<"1", ".", " ", "a", "\n", "2", ".", " ", "b">>,
    <<"[", "\"", "a", "\"", "]", " ", "o", "r", " ", "[", "\"", "b", "\"", "]">>,
    <<"[", "1", ",", "2", "]">>,
    <<"1", ".", " ", "v", "3", ".", "1">>,
    <<"{", "\"", "q", "u", "e", "s", "t", "i", "o", "n", "s", "\"", ":", "[", "\"", "a", "\"", ",", "\"", "b", "\"", "]", "}">>,
    <<"{", "\"", "q", "u", "e", "s", "t", "i", "o", "n", "s", "\"", ":", "[", "\"", "a", "\"", "]", ",", "\"", "t", "\"", ":", "[", "\"", "b", "\"", "]", "}">>,
    <<"-", " ", "a", "\n", "-", " ", "b", "\n", "-", " ", "c", "\n", "-", " ", "d">> }

\* What the remote branch meets: an exception before the request is sent
\* (prompt construction, ", ".join), an exception of chain.run, a result that
\* is no str, or a str.
RemoteOutcomes ==
    {[kind |-> k, text |-> <<>>] : k \in {"prompt_error", "api_error", "nonstr"}}
    \cup {[kind |-> "str", text |-> t] : t \in RemoteResponses}
NotAttempted == [kind |-> "not_attempted", text |-> <<>>]

\* (a variant whose range check has no upper limit)
RejectionNoUpperLimit(op, a) ==
    IF \/ op = "generate_personalized_questions" /\ ~Truthy(a.resume_text)
       \/ ~Truthy(a.job_role) \/ ~Truthy(a.experience_level) \/ ~Truthy(a.skills)
    THEN "Missing required parameters"
    ELSE IF a.num_questions < MinQuestions
         THEN "Number of questions must be between 1 and 50"
    ELSE "none"

\* the two argument checks that open both generate methods
Rejection(op, a) ==
    IF \/ op = "generate_personalized_questions" /\ ~Truthy(a.resume_text)
       \/ ~Truthy(a.job_role) \/ ~Truthy(a.experience_level) \/ ~Truthy(a.skills)
    THEN "Missing required parameters"
    ELSE IF a.num_questions < MinQuestions \/ a.num_questions > MaxQuestions
         THEN "Number of questions must be between 1 and 50"
    ELSE "none"

\* (a variant that reads api_key_valid before use_api)
KeyValidAndUseApi ==
    IF api_key_valid = "unset" THEN "AttributeError"
    ELSE IF ~use_api THEN "False"
    ELSE api_key_valid

\* `self.use_api and self.api_key_valid`: the right operand is read only
\* when the left one is true, and reading an unset attribute raises
UseApiAndKeyValid ==
    IF ~use_api THEN "False"
    ELSE IF api_key_valid = "unset" THEN "AttributeError"
    ELSE api_key_valid

(* a generator that stays local once a remote call has failed *)
ApiBranchUntilFailure(op) ==
    IF gen_call.path \in {"api_fallback", "parse_fallback"} THEN "False"
    ELSE IF op = "generate_questions" THEN UseApiAndKeyValid
    ELSE IF use_api THEN "True" ELSE "False"

\* the branch condition: line 97 of generate_questions, line 206 of
\* generate_personalized_questions
ApiBranch(op) ==
    IF op = "generate_questions" THEN UseApiAndKeyValid
    ELSE IF use_api THEN "True" ELSE "False"

\* QuestionGenerator._wait_for_rate_limit: the time slept and the new
\* last_api_call
wait_for_rate_limit ==
    IF UseApiAndKeyValid = "AttributeError"
    THEN [raised |-> TRUE, slept |-> 0, last_api_call |-> last_api_call]
    ELSE IF UseApiAndKeyValid = "True"
    THEN LET time_since_last_call == now - last_api_call
             slept == IF time_since_last_call < min_delay
                      THEN min_delay - time_since_last_call ELSE 0
         IN  [raised |-> FALSE, slept |-> slept, last_api_call |-> now + slept]
    ELSE [raised |-> FALSE, slept |-> 0, last_api_call |-> last_api_call]

\* the record of the last call, before any call
NoArgs ==
    [job_role |-> PyStr(<<>>), experience_level |-> PyStr(<<>>),
     skills |-> PyList(<<>>), num_questions |-> 0, resume_text |-> PyStr(<<>>)]
IdleGenCall ==
    [op |-> "none", args |-> NoArgs, remote |-> NotAttempted, path |-> "none",
     result |-> NoCall, wait_calls |-> 0, slept |-> 0, remote_calls |-> 0,
     bank_lookups |-> 0, remote_start |-> -1, remote_end |-> -1,
     prev_remote_end |-> -1, prev_path |-> "none"]

\* One call of generate_questions or generate_personalized_questions with
\* arguments a, where the remote branch (if taken) meets `remote` and a sent
\* request takes d: the call's record, and the generator's state after it.
Generate(op, a, remote, d) ==
    LET rejection == Rejection(op, a)
        branch == ApiBranch(op)
        local == get_local_questions(a.job_role, a.experience_level, a.num_questions)
        prev_end == IF gen_call.remote_calls > 0 THEN gen_call.remote_end
                    ELSE gen_call.prev_remote_end
        base == [IdleGenCall EXCEPT !.op = op, !.args = a, !.prev_remote_end = prev_end,
                                    !.prev_path = gen_call.path]
        same == [last_api_call |-> last_api_call, now |-> now]
    IN  IF rejection # "none"
        THEN [call |-> [base EXCEPT !.path = "rejected", !.result = Raise("ValueError")],
              self |-> same]
        ELSE IF branch = "AttributeError"
        THEN [call |-> [base EXCEPT !.path = "attribute_error",
                                    !.result = Raise("AttributeError")],
              self |-> same]
        ELSE IF branch = "False"
        THEN [call |-> [base EXCEPT !.path = "local_only", !.result = local,
                                    !.bank_lookups = 1],
              self |-> same]
        ELSE
        LET w == wait_for_rate_limit
            start == now + w.slept
            sent == ~w.raised /\ remote.kind # "prompt_error"
            end == IF sent THEN start + d ELSE start
            parsed == IF sent /\ remote.kind = "str"
                      THEN ParseResponse(remote.text, a.num_questions)
                      ELSE NoCall
            tried == [base EXCEPT !.remote = remote, !.wait_calls = 1,
                                  !.slept = w.slept,
                                  !.remote_calls = IF sent THEN 1 ELSE 0,
                                  !.remote_start = IF sent THEN start ELSE -1,
                                  !.remote_end = IF sent THEN end ELSE -1]
            after == [last_api_call |-> w.last_api_call, now |-> end]
        IN  IF ~sent \/ remote.kind = "api_error"
            THEN [call |-> [tried EXCEPT !.path = "api_fallback", !.result = local,
                                         !.bank_lookups = 1],
                  self |-> after]
            ELSE IF remote.kind = "nonstr"
            THEN [call |-> [tried EXCEPT !.path = "no_return", !.result = ReturnNone],
                  self |-> after]
            ELSE IF parsed.kind = "raise"
            THEN [call |-> [tried EXCEPT !.path = "parse_fallback", !.result = local,
                                         !.bank_lookups = 1],
                  self |-> after]
            ELSE [call |-> [tried EXCEPT !.path = "parsed", !.result = parsed],
                  self |-> after]

\* The outcomes and durations to draw for a call: none when the call does not
\* reach the remote branch, no duration when no request is sent.
RemoteDraws(op, a, outcomes, durations) ==
    IF Rejection(op, a) = "none" /\ ApiBranch(op) = "True"
    THEN {<<o, d>> \in outcomes \X durations :
             o.kind = "prompt_error" => d = 0}
    ELSE {<<NotAttempted, 0>>}

GenerateCall(op, outcomes, durations) ==
    /\ \E a \in GenArgs(op) :
        \E draw \in RemoteDraws(op, a, outcomes, durations) :
            \E g \in {Generate(op, a, draw[1], draw[2])} :
                /\ g.self.now <= MaxTime
                /\ gen_call' = g.call
                /\ last_api_call' = g.self.last_api_call
                /\ now' = g.self.now
    /\ UNCHANGED <<credential, use_api, api_key_valid>>
    /\ UNCHANGED <<bank_vars, store_vars, race_vars, front_vars>>

\* a call whose request, if one is sent, is answered at once
generate_questions ==
    GenerateCall("generate_questions", RemoteOutcomes, {0})
generate_personalized_questions ==
    GenerateCall("generate_personalized_questions", RemoteOutcomes, {0})

\* a call whose request takes some time, whatever the answer
TimedOutcomes == {o \in RemoteOutcomes : o.kind # "str" \/ o.text = <<"[", "]">>}
generate_questions_timed ==
    GenerateCall("generate_questions", TimedOutcomes, 0..MaxCallDuration)
generate_personalized_questions_timed ==
    GenerateCall("generate_personalized_questions", TimedOutcomes, 0..MaxCallDuration)

\* time passes between two calls
Tick ==
    /\ now < MaxTime
    /\ now' = now + 1
    /\ UNCHANGED <<credential, use_api, api_key_valid, last_api_call, gen_call>>
    /\ UNCHANGED <<bank_vars, store_vars, race_vars, front_vars>>

\* QuestionGenerator.__init__ for each state of the credential: "absent",
\* "malformed" (no "sk-" prefix), "rejected" (openai.models.list() raises) or
\* "valid".  last_api_call is assigned only with a valid key; -1 stands for
\* the attribute being unset.
Credentials == {"absent", "malformed", "rejected", "valid"}
GeneratorInit(c) ==
    /\ credential = c
    /\ use_api = (c = "valid")
    /\ api_key_valid = (IF c = "valid" THEN "True"
                        ELSE IF c = "malformed" THEN "unset" ELSE "False")
    /\ last_api_call = (IF c = "valid" THEN 0 ELSE -1)
    /\ gen_call = IdleGenCall

\* time.time() is the Unix time, far above min_delay, when the generator is
\* constructed: the clock of the model starts at min_delay.
GenInit ==
    /\ \E c \in Credentials : GeneratorInit(c)
    /\ now = min_delay

GenIdle ==
    /\ GeneratorInit("absent")
    /\ now = min_delay

(***************************************************************************)
(* VectorStorage                                                           *)
(*                                                                         *)
(* The store file is [state, data]: state "ok" with data the list of       *)
(* session records it holds, or state "corrupt" (a write that failed after *)
(* open(path, "w") had truncated the file) with nothing json.load can      *)
(* read.  json.dump followed by json.load gives back equal str, list and   *)
(* bool values, so data is kept as the records themselves.  Arguments are  *)
(* plain sequences here: a str is its characters, a list its items, and a  *)
(* session_id of None is the empty sequence (both are falsy).              *)
(***************************************************************************)
UpperCase == <<"A","B","C","D","E","F","G","H","I","J","K","L","M",
               "N","O","P","Q","R","S","T","U","V","W","X","Y","Z">>
LowerCase == <<"a","b","c","d","e","f","g","h","i","j","k","l","m",
               "n","o","p","q","r","s","t","u","v","w","x","y","z">>
LowerOf == [c \in {UpperCase[i] : i \in 1..26} |->
               LowerCase[CHOOSE i \in 1..26 : UpperCase[i] = c]]
LowerChar(c) == IF c \in DOMAIN LowerOf THEN LowerOf[c] ELSE c
\* s.lower()
Lower(s) == [i \in 1..Len(s) |-> LowerChar(s[i])]
\* sub in s
Contains(s, sub) == \E i \in 1..(Len(s) - Len(sub) + 1) : StartsWithAt(s, i, sub)

(* a descending sort that is not stable: equal keys end in reverse order *)
RECURSIVE InsertDescUnstable(_, _)
InsertDescUnstable(sorted, x) ==
    IF sorted = <<>> THEN <<x>>
    ELSE IF Head(sorted)[1] > x[1]
         THEN <<Head(sorted)>> \o InsertDescUnstable(Tail(sorted), x)
    ELSE <<x>> \o sorted

\* list.sort(key=..., reverse=True) on a list of <<key, item>> pairs:
\* descending by key and stable
RECURSIVE InsertDesc(_, _)
InsertDesc(sorted, x) ==
    IF sorted = <<>> THEN <<x>>
    ELSE IF Head(sorted)[1] >= x[1] THEN <<Head(sorted)>> \o InsertDesc(Tail(sorted), x)
    ELSE <<x>> \o sorted
RECURSIVE SortDescFrom(_, _)
SortDescFrom(sorted, rest) ==
    IF rest = <<>> THEN sorted
    ELSE SortDescFrom(InsertDesc(sorted, Head(rest)), Tail(rest))
SortDesc(pairs) == SortDescFrom(<<>>, pairs)
Items(pairs) == [i \in 1..Len(pairs) |-> pairs[i][2]]

EmptyFile == [state |-> "ok", data |-> <<>>]

(* a fallback that leaves the flag unset *)
local_storage_unset == "unset"

\* _initialize_local_storage: sets the flag; the file is created only when
\* it does not exist, and the model's file always exists after construction
initialize_local_storage == "True"

(* a read that answers from the last good contents when it fails *)
get_local_storage_stale(rd) == file.data

\* _get_local_storage under a read that works (rd = "ok") or raises
\* (rd = "io_error"): a corrupt file makes json.load raise; both give []
get_local_storage(rd) ==
    IF rd = "ok" /\ file.state = "ok" THEN file.data ELSE <<>>

(* a write that adds the new record to the file as it is now *)
save_local_storage_appending(data, wr) ==
    [state |-> "ok", data |-> Append(file.data, data[Len(data)])]

\* _save_local_storage(data) under a write that works ("ok"), cannot open the
\* file ("open_error") or fails in json.dump after the truncation
\* ("dump_error"); the exception is printed and swallowed
save_local_storage(data, wr) ==
    IF wr = "ok" THEN [state |-> "ok", data |-> data]
    ELSE IF wr = "open_error" THEN file
    ELSE [state |-> "corrupt", data |-> <<>>]

\* the records json.load would give for the file as it is
Persisted(f) == IF f.state = "ok" THEN f.data ELSE <<>>

\* str(uuid.uuid4()): an identifier that no stored record carries
Uuid(k) == <<"u", Digits[k + 1]>>
SessionIds(data) == {data[i].session_id : i \in 1..Len(data)}
uuid4 ==
    LET used == SessionIds(Persisted(file)) \cup SessionIds(vectorstore)
    IN  Uuid(CHOOSE k \in 0..9 : Uuid(k) \notin used
                                 /\ \A j \in 0..(k - 1) : Uuid(j) \in used)

\* the record _store_questions_locally builds
Entry(req, session_id, timestamp) ==
    [job_role |-> req.job_role, experience_level |-> req.experience_level,
     skills |-> req.skills, session_id |-> session_id,
     is_personalized |-> req.is_personalized, timestamp |-> timestamp,
     questions |-> req.questions]

\* _store_questions_locally: the file after it; it returns True whatever the
\* read and the write did
store_questions_locally(req, session_id, rd, wr) ==
    LET data == get_local_storage(rd)
        entry == Entry(req, session_id, clock)
    IN  save_local_storage(Append(data, entry), wr)

\* ---- bounds of the storage engine's environment
\* A store is tried while the file holds fewer than MaxSessions records;
\* datetime.now() ranges over as many instants, so that the records can carry
\* their timestamps in any order, and limit over 1..MaxSessions.
MaxSessions == 2
Instants == 0..(MaxSessions - 1)

WhySQL == <<"W","h","y"," ","S","Q","L","?">>
Plan == <<"P","l","a","n">>
HashedId == <<"h","1">>

ValidRequest ==
    [questions |-> <<WhySQL, Plan>>, job_role |-> PythonDeveloper,
     experience_level |-> EntryLevel, skills |-> <<SQL>>, session_id |-> <<>>,
     is_personalized |-> FALSE]
\* as the Streamlit page calls it: session_id is a hash of role, level, skills
HashedRequest ==
    [ValidRequest EXCEPT !.questions = <<Plan>>, !.session_id = HashedId]
NoQuestions == [ValidRequest EXCEPT !.questions = <<>>]
StoreRequests == {ValidRequest, HashedRequest, NoQuestions}
\* requests with an empty job_role, experience_level or skills
BlankRequests ==
    { [HashedRequest EXCEPT !.job_role = <<>>],
      [HashedRequest EXCEPT !.experience_level = <<>>],
      [HashedRequest EXCEPT !.skills = <<>>] }

Queries == { <<"s","q","l">>, <<"S","Q","L">>, <<"e","n","t","r","y">> }
SearchLimits == 1..MaxSessions

ReadOutcomes == {"ok", "io_error"}
WriteOutcomes == {"ok", "open_error", "dump_error"}
\* the vector index is asked only when use_local_storage is not set
\* a variant that consults the vector backend whatever the flag says
VectorOutcomesIgnoringFlag == {"ok", "error"}
VectorOutcomes == IF use_local_storage = "True" THEN {"unused"} ELSE {"ok", "error"}

\* the record of the last call; req is empty when the call stores nothing
NoRequest ==
    [questions |-> <<>>, job_role |-> <<>>, experience_level |-> <<>>,
     skills |-> <<>>, session_id |-> <<>>, is_personalized |-> FALSE]
IdleStoreCall ==
    [op |-> "none", req |-> NoRequest, query |-> <<>>, limit |-> 0, rd |-> "none",
     wr |-> "none", backend |-> "none", result |-> NoCall]

\* the `if not questions: return False` that opens store_questions
(* a variant that lets an empty list through *)
AcceptsAnyQuestions(req) == TRUE
AcceptsQuestions(req) == req.questions # <<>>

\* VectorStorage.store_questions for a request of `requests`, under the
\* outcomes `reads` and `writes` of the file operations
StoreQuestions(requests, reads, writes) ==
    /\ \E req \in requests, vec \in VectorOutcomes :
        IF ~AcceptsQuestions(req)
        THEN /\ store_call' = [IdleStoreCall EXCEPT !.op = "store_questions",
                                   !.req = req, !.result = ReturnBool(FALSE)]
             /\ UNCHANGED <<use_local_storage, file, vectorstore>>
        ELSE
        LET session_id == IF req.session_id = <<>> THEN uuid4 ELSE req.session_id
        IN  /\ Len(Persisted(file)) < MaxSessions
            /\ IF vec = "ok"
               THEN /\ vectorstore' = Append(vectorstore, Entry(req, session_id, clock))
                    /\ store_call' = [IdleStoreCall EXCEPT !.op = "store_questions",
                                          !.req = req, !.backend = "vector",
                                          !.result = ReturnBool(TRUE)]
                    /\ UNCHANGED <<use_local_storage, file>>
               ELSE \E rd \in reads, wr \in writes :
                    /\ use_local_storage' = initialize_local_storage
                    /\ file' = store_questions_locally(req, session_id, rd, wr)
                    /\ store_call' = [IdleStoreCall EXCEPT !.op = "store_questions",
                                          !.req = req, !.rd = rd, !.wr = wr,
                                          !.backend = "file", !.result = ReturnBool(TRUE)]
                    /\ UNCHANGED vectorstore
    /\ UNCHANGED clock
    /\ UNCHANGED <<bank_vars, gen_vars, race_vars, front_vars>>

store_questions == StoreQuestions(StoreRequests, ReadOutcomes, WriteOutcomes)

\* store_questions for every kind of request while the file operations work
store_questions_checked ==
    StoreQuestions(StoreRequests \cup BlankRequests, {"ok"}, {"ok"})

\* the match score of one record for a lower-cased query
MatchScore(entry, query) ==
    (IF Contains(Lower(entry.job_role), query) THEN 3 ELSE 0)
    + (IF \E i \in 1..Len(entry.skills) : Contains(Lower(entry.skills[i]), query)
       THEN 2 ELSE 0)
    + Cardinality({i \in 1..Len(entry.questions) :
                       Contains(Lower(entry.questions[i]), query)})

\* the (match_score, entry) pairs of the records that score above 0
RECURSIVE Scored(_, _)
Scored(data, query) ==
    IF data = <<>> THEN <<>>
    ELSE LET match_score == MatchScore(Head(data), query)
         IN  (IF match_score > 0 THEN << <<match_score, Head(data)>> >> ELSE <<>>)
             \o Scored(Tail(data), query)

(* a search that compares the query as it was typed *)
search_questions_locally_cased(query, limit, rd) ==
    SlicePrefix(Items(SortDesc(Scored(get_local_storage(rd), query))), limit)

\* VectorStorage._search_questions_locally
search_questions_locally(query, limit, rd) ==
    SlicePrefix(Items(SortDesc(Scored(get_local_storage(rd), Lower(query)))), limit)

(* sort keys that put the oldest session first *)
TimestampPairsOldestFirst(data) ==
    [i \in 1..Len(data) |-> <<0 - data[i].timestamp, data[i]>>]

\* VectorStorage._get_recent_sessions_locally; the key is the isoformat text
\* of the instant, whose order as text is the order of the instants
TimestampPairs(data) == [i \in 1..Len(data) |-> <<data[i].timestamp, data[i]>>]
get_recent_sessions_locally(limit, rd) ==
    SlicePrefix(Items(SortDesc(TimestampPairs(get_local_storage(rd)))), limit)

\* VectorStorage.search_questions.  The ranking of the vector index is the
\* service's: the sessions it returns are some `limit` of the indexed ones.
SearchQuestions(queries, limits) ==
    /\ \E query \in queries, limit \in limits, vec \in VectorOutcomes :
        IF vec = "ok"
        THEN /\ store_call' = [IdleStoreCall EXCEPT !.op = "search_questions",
                                   !.query = query, !.limit = limit,
                                   !.backend = "vector",
                                   !.result = Return(SlicePrefix(vectorstore, limit))]
             /\ UNCHANGED use_local_storage
        ELSE \E rd \in ReadOutcomes :
             /\ use_local_storage' = initialize_local_storage
             /\ store_call' = [IdleStoreCall EXCEPT !.op = "search_questions",
                                   !.query = query, !.limit = limit, !.rd = rd,
                                   !.backend = "file",
                                   !.result = Return(search_questions_locally(query, limit, rd))]
    /\ UNCHANGED <<file, vectorstore, clock>>
    /\ UNCHANGED <<bank_vars, gen_vars, race_vars, front_vars>>

search_questions == SearchQuestions(Queries, SearchLimits)

\* ---- searches of a file that earlier runs have filled
\* _initialize_local_storage keeps a file that exists, so a new engine finds
\* the sessions stored before: up to MaxSearchSessions of them, taken in the
\* same second, with the session_ids the callers supplied.
MaxSearchSessions == 3
HashedId2 == <<"h","2">>
\* "sql" is in two questions and in the role; in the role and in two skills
RoleRequest ==
    [questions |-> <<WhySQL, WhySQL>>, job_role |-> SQL,
     experience_level |-> MidLevel, skills |-> <<Resume>>, session_id |-> HashedId,
     is_personalized |-> FALSE]
SqlRequest ==
    [questions |-> <<Plan>>, job_role |-> SQL, experience_level |-> MidLevel,
     skills |-> <<SQL, Resume, SQL>>, session_id |-> HashedId2,
     is_personalized |-> TRUE]
SearchRequests ==
    {[ValidRequest EXCEPT !.session_id = HashedId2], HashedRequest,
     RoleRequest, SqlRequest}
SearchEntries == {Entry(req, req.session_id, 0) : req \in SearchRequests}
RECURSIVE ListsUpTo(_, _)
ListsUpTo(items, n) ==
    IF n = 0 THEN {<<>>}
    ELSE LET shorter == ListsUpTo(items, n - 1)
         IN  shorter \cup {Append(l, x) : l \in shorter, x \in items}
SearchQueries == { <<"S","q","L">>, <<"c","v">>, <<>> }
search_questions_filled ==
    SearchQuestions(SearchQueries, 0..MaxSearchSessions)

\* a variant that writes its sorted copy back to the file
get_recent_sessions_saving ==
    /\ \E limit \in SearchLimits, rd \in ReadOutcomes :
        /\ use_local_storage' = initialize_local_storage
        /\ file' = [state |-> "ok",
                    data |-> Items(SortDesc(TimestampPairs(get_local_storage(rd))))]
        /\ store_call' = [IdleStoreCall EXCEPT !.op = "get_recent_sessions",
                              !.limit = limit, !.rd = rd, !.backend = "file",
                              !.result = Return(get_recent_sessions_locally(limit, rd))]
    /\ UNCHANGED <<vectorstore, clock>>
    /\ UNCHANGED <<bank_vars, gen_vars, race_vars, front_vars>>

\* VectorStorage.get_recent_sessions: always the flat file
get_recent_sessions ==
    /\ \E limit \in SearchLimits, rd \in ReadOutcomes :
        /\ use_local_storage' = initialize_local_storage
        /\ store_call' = [IdleStoreCall EXCEPT !.op = "get_recent_sessions",
                              !.limit = limit, !.rd = rd, !.backend = "file",
                              !.result = Return(get_recent_sessions_locally(limit, rd))]
    /\ UNCHANGED <<file, vectorstore, clock>>
    /\ UNCHANGED <<bank_vars, gen_vars, race_vars, front_vars>>

\* datetime.now() is the naive local time: it moves on, and it is set back
\* when daylight saving time ends or the system clock is adjusted
ClockTick ==
    /\ clock + 1 \in Instants
    /\ clock' = clock + 1
    /\ UNCHANGED <<use_local_storage, file, vectorstore, store_call>>
    /\ UNCHANGED <<bank_vars, gen_vars, race_vars, front_vars>>

ClockSetBack ==
    /\ clock - 1 \in Instants
    /\ clock' = clock - 1
    /\ UNCHANGED <<use_local_storage, file, vectorstore, store_call>>
    /\ UNCHANGED <<bank_vars, gen_vars, race_vars, front_vars>>

\* VectorStorage.__init__: _initialize_pinecone runs before self.embeddings
\* is assigned, so Pinecone(index=..., embedding=self.embeddings, ...) raises
\* AttributeError when the index is reachable, as pinecone.init does when it
\* is not; the except branch calls _initialize_local_storage either way.
PineconeStates == {"reachable", "unreachable"}
\* a variant with self.embeddings assigned before _initialize_pinecone runs:
\* a reachable index leaves the engine on the vector backend
VectorStorageInitEmbeddingsFirst(pinecone) ==
    /\ use_local_storage = IF pinecone = "reachable" THEN "False"
                           ELSE initialize_local_storage
    /\ file = EmptyFile
    /\ vectorstore = <<>>
    /\ store_call = IdleStoreCall
VectorStorageInit(pinecone) ==
    /\ use_local_storage = initialize_local_storage
    /\ file = EmptyFile
    /\ vectorstore = <<>>
    /\ store_call = IdleStoreCall

StoreInit ==
    /\ \E pinecone \in PineconeStates : VectorStorageInit(pinecone)
    /\ clock = 0

(***************************************************************************)
(* Two processes on one store file                                         *)
(*                                                                         *)
(* main.py (Streamlit) and routes.py (Flask) each construct a VectorStorage *)
(* on data/questions_storage.json.  _store_questions_locally reads the     *)
(* file, appends to the list in memory and rewrites the file; nothing      *)
(* locks the file, so the steps of two processes interleave.               *)
(***************************************************************************)
MaxRaceSessions == 2    \* the file holds up to this many sessions beforehand
Writers == {1, 2}
WriterId(p) == <<"p", Digits[p + 1]>>
WriterRequest(p) ==
    IF p = 1 THEN [ValidRequest EXCEPT !.session_id = WriterId(1)]
    ELSE [HashedRequest EXCEPT !.session_id = WriterId(2)]
IdleWriter == [pc |-> "idle", data |-> <<>>, result |-> NoCall]
InFlight(w) == w.pc \in {"read", "appended"}

RaceIdle ==
    writers = [proc |-> [p \in Writers |-> IdleWriter], overlapped |-> FALSE]

\* data = self._get_local_storage()
writer_read(p) ==
    /\ writers.proc[p].pc = "idle"
    /\ writers' = [proc |-> [writers.proc EXCEPT
                                ![p] = [pc |-> "read", data |-> get_local_storage("ok"),
                                        result |-> NoCall]],
                   overlapped |-> \/ writers.overlapped
                                  \/ \E q \in Writers \ {p} : InFlight(writers.proc[q])]
    /\ UNCHANGED <<bank_vars, gen_vars, store_vars, front_vars>>

\* data.append(entry)
writer_append(p) ==
    /\ writers.proc[p].pc = "read"
    /\ writers' = [writers EXCEPT
                      !.proc[p].pc = "appended",
                      !.proc[p].data = Append(@, Entry(WriterRequest(p), WriterId(p), clock))]
    /\ UNCHANGED <<bank_vars, gen_vars, store_vars, front_vars>>

\* self._save_local_storage(data); return True
writer_rewrite(p) ==
    /\ writers.proc[p].pc = "appended"
    /\ file' = save_local_storage(writers.proc[p].data, "ok")
    /\ writers' = [writers EXCEPT !.proc[p].pc = "done",
                                  !.proc[p].result = ReturnBool(TRUE)]
    /\ UNCHANGED <<use_local_storage, vectorstore, clock, store_call>>
    /\ UNCHANGED <<bank_vars, gen_vars, front_vars>>

(***************************************************************************)
(* The front ends: the two generate routes of routes.py and the generate   *)
(* page of main.py.  One action is one request, from its arguments to the  *)
(* response; steps lists what the handler did, in order.                   *)
(***************************************************************************)
MaxFrontSessions == 1
MaxFrontTime == 4
FrontEnds ==
    {"generate_questions", "generate_personalized_questions", "generate_questions_page"}
GeneratorMethod(endpoint) ==
    IF endpoint = "generate_personalized_questions" THEN endpoint
    ELSE "generate_questions"
\* the routes test job_role and experience_level; the page tests nothing
Validates(endpoint) == endpoint # "generate_questions_page"

\* What a request carries.  The page's select_slider always gives a level;
\* the personalized route splits the skills text, which gives a non-empty
\* list, and takes resume_text from the parsed upload (empty when the
\* parser found no text).
FrontRequests(endpoint) ==
    {[BaseArgs EXCEPT !.job_role = r, !.experience_level = l, !.skills = s,
                      !.resume_text = t] :
        r \in {PyStr(PythonDeveloper), PyStr(<<>>)},
        l \in IF endpoint = "generate_questions_page" THEN {PyStr(MidLevel)}
              ELSE {PyStr(MidLevel), PyStr(<<>>)},
        s \in IF endpoint = "generate_questions_page"
              THEN {PyList(<<PyStr(SQL)>>), PyList(<<>>)}
              ELSE {PyList(<<PyStr(SQL)>>)},
        t \in IF endpoint = "generate_personalized_questions"
              THEN {PyStr(Resume), PyStr(<<>>)} ELSE {PyStr(Resume)}}
FrontOutcomes ==
    {o \in RemoteOutcomes :
        o.kind \in {"api_error", "nonstr"} \/ o.text \in { <<"[", "]">>,
                                       <<"1", ".", " ", "a", "\n", "2", ".", " ", "b">> }}

\* the store file is read; writing it works or open() fails
FrontReads == {"ok"}
FrontWrites == {"ok", "open_error"}

IdleFront ==
    [endpoint |-> "none", args |-> NoArgs, steps |-> <<>>, generator_calls |-> 0,
     generated |-> NoCall, store_calls |-> 0, stored |-> <<>>,
     response |-> "none", shown |-> <<>>]
FrontIdle == front = IdleFront

\* the arguments of the handler's store_questions call
FrontStoreRequest(endpoint, a, qs) ==
    [questions |-> qs, job_role |-> a.job_role.v,
     experience_level |-> a.experience_level.v, skills |-> Texts(a.skills),
     session_id |-> IF endpoint = "generate_questions_page" THEN HashedId ELSE <<>>,
     is_personalized |-> endpoint = "generate_personalized_questions"]

\* the opening step of the handler
Opening(endpoint) == IF Validates(endpoint) THEN <<"validate">> ELSE <<>>

\* `return jsonify({'error': ...})` before the generator is called
FrontRefuse(base) ==
    /\ front' = [base EXCEPT !.steps = Opening(base.endpoint) \o <<"respond">>,
                             !.response = "error"]
    /\ UNCHANGED <<gen_vars, store_vars>>

\* the generator raised (the routes catch it, the page does not) or gave
\* nothing (`if not questions`)
FrontFail(called) ==
    /\ front' = [called EXCEPT
           !.steps = Opening(called.endpoint) \o <<"generate", "respond">>,
           !.response = IF called.generated.kind = "raise" /\ ~Validates(called.endpoint)
                        THEN "exception" ELSE "error"]
    /\ UNCHANGED store_vars

\* vector_storage.store_questions(...), its result dropped, then the response
FrontStore(called, req, rd, wr) ==
    /\ Len(Persisted(file)) < MaxFrontSessions
    /\ use_local_storage' = initialize_local_storage
    /\ file' = store_questions_locally(
                  req, IF req.session_id = <<>> THEN uuid4 ELSE req.session_id, rd, wr)
    /\ store_call' = [IdleStoreCall EXCEPT
           !.op = "store_questions", !.req = req, !.rd = rd, !.wr = wr,
           !.backend = "file", !.result = ReturnBool(TRUE)]
    /\ UNCHANGED <<vectorstore, clock>>
    /\ front' = [called EXCEPT
           !.steps = Opening(called.endpoint) \o <<"generate", "store", "respond">>,
           !.store_calls = 1, !.stored = req.questions,
           !.response = "questions", !.shown = req.questions]

FrontRequest(endpoint) ==
    \E a \in FrontRequests(endpoint) :
    \E base \in {[IdleFront EXCEPT !.endpoint = endpoint, !.args = a]} :
      IF \/ Validates(endpoint)
              /\ (~Truthy(a.job_role) \/ ~Truthy(a.experience_level))
         \/ endpoint = "generate_personalized_questions" /\ ~Truthy(a.resume_text)
      THEN FrontRefuse(base)
      ELSE
      \E draw \in RemoteDraws(GeneratorMethod(endpoint), a, FrontOutcomes, {0}) :
      \E g \in {Generate(GeneratorMethod(endpoint), a, draw[1], draw[2])} :
      \E called \in {[base EXCEPT !.generator_calls = 1,
                                  !.generated = g.call.result]} :
        /\ g.self.now <= MaxFrontTime
        /\ gen_call' = g.call
        /\ last_api_call' = g.self.last_api_call
        /\ now' = g.self.now
        /\ UNCHANGED <<credential, use_api, api_key_valid>>
        /\ IF g.call.result.kind # "return" \/ g.call.result.value = <<>>
           THEN FrontFail(called)
           ELSE \E rd \in FrontReads, wr \in FrontWrites :
                  FrontStore(called,
                             FrontStoreRequest(endpoint, a, g.call.result.value),
                             rd, wr)

front_generate_questions ==
    /\ FrontRequest("generate_questions")
    /\ UNCHANGED <<bank_vars, race_vars>>
front_generate_personalized_questions ==
    /\ FrontRequest("generate_personalized_questions")
    /\ UNCHANGED <<bank_vars, race_vars>>
front_generate_questions_page ==
    /\ FrontRequest("generate_questions_page")
    /\ UNCHANGED <<bank_vars, race_vars>>

(***************************************************************************)
(* QuestionBank.get_questions on drawn arguments                           *)
(***************************************************************************)
MaxBankLimit == 16      \* num_questions ranges over -MaxBankLimit..MaxBankLimit

Senior == <<"S","e","n","i","o","r">>
BankRoles == {PyStr(PythonDeveloper), PyStr(DataScientist), PyStr(UnknownRole),
              PyStr(<<>>), PyList(<<PyStr(PythonDeveloper)>>)}
BankLevels == {PyStr(EntryLevel), PyStr(MidLevel), PyStr(Senior),
               PyList(<<PyStr(EntryLevel)>>)}
BankLimits == (-MaxBankLimit)..MaxBankLimit

BankInit ==
    bank_call \in [job_role : BankRoles, experience_level : BankLevels,
                   num_questions : BankLimits, result : {NoCall}]
BankIdle ==
    bank_call = [job_role |-> DefaultRole, experience_level |-> DefaultLevel,
                 num_questions |-> 0, result |-> NoCall]

get_questions_call ==
    /\ bank_call.result.kind = "idle"
    /\ bank_call' = [bank_call EXCEPT !.result =
           get_questions(bank_call.job_role, bank_call.experience_level,
                         bank_call.num_questions)]
    /\ UNCHANGED <<gen_vars, store_vars, race_vars, front_vars>>

(***************************************************************************)
(* Specifications                                                          *)
(***************************************************************************)
\* the question bank alone
BankNext == get_questions_call
InitBank ==
    /\ BankInit
    /\ GenIdle /\ StoreInit /\ RaceIdle /\ FrontIdle
SpecBank == InitBank /\ [][BankNext]_vars

\* the state after the three objects are constructed
Init ==
    /\ BankIdle
    /\ GenInit /\ StoreInit /\ RaceIdle /\ FrontIdle

\* the generator, each request answered at once and the calls back to back
GenNext == generate_questions \/ generate_personalized_questions
SpecGen == Init /\ [][GenNext]_vars

\* the generator and its clock: requests take time, time passes between calls
GenTimeNext ==
    generate_questions_timed \/ generate_personalized_questions_timed \/ Tick
SpecGenTime == Init /\ [][GenTimeNext]_vars

\* the storage engine and its clock
StoreNext ==
    \/ store_questions \/ search_questions \/ get_recent_sessions
    \/ ClockTick \/ ClockSetBack
InitStore ==
    /\ BankIdle /\ GenIdle /\ RaceIdle /\ FrontIdle
    /\ StoreInit
SpecStore == InitStore /\ [][StoreNext]_vars

\* the storage engine on every kind of request, the file operations working
StoreArgsNext == store_questions_checked \/ ClockTick \/ ClockSetBack
SpecStoreArgs == InitStore /\ [][StoreArgsNext]_vars

\* searches by an engine constructed over a file that holds sessions
FilledInit ==
    /\ BankIdle /\ GenIdle /\ RaceIdle /\ FrontIdle
    /\ use_local_storage = initialize_local_storage
    /\ file \in {[state |-> "ok", data |-> d] :
                     d \in ListsUpTo(SearchEntries, MaxSearchSessions)}
    /\ vectorstore = <<>>
    /\ store_call = IdleStoreCall
    /\ clock = 0
SearchNext == search_questions_filled
SpecSearch == FilledInit /\ [][SearchNext]_vars

\* two processes storing one session each into a file that holds sessions
RaceInit ==
    /\ BankIdle /\ GenIdle /\ RaceIdle /\ FrontIdle
    /\ use_local_storage = initialize_local_storage
    /\ file \in {[state |-> "ok", data |-> d] :
                     d \in ListsUpTo(SearchEntries, MaxRaceSessions)}
    /\ vectorstore = <<>>
    /\ store_call = IdleStoreCall
    /\ clock = 0
RaceNext ==
    \E p \in Writers : writer_read(p) \/ writer_append(p) \/ writer_rewrite(p)
SpecRace == RaceInit /\ [][RaceNext]_vars

\* the front ends over the generator and the storage engine
FrontNext ==
    \/ front_generate_questions
    \/ front_generate_personalized_questions
    \/ front_generate_questions_page
SpecFront == Init /\ [][FrontNext]_vars

\* the generator and the storage engine together; they share no state, so the
\* specifications above explore each on its own
Next == GenNext \/ GenTimeNext \/ StoreNext \/ StoreArgsNext \/ SearchNext \/ RaceNext
        \/ FrontNext
Spec == Init /\ [][Next]_vars

(***************************************************************************)
(* Properties of the question bank (SpecBank)                              *)
(***************************************************************************)
BankCalled == bank_call.result.kind # "idle"
StrArgs == bank_call.job_role.t = "str" /\ bank_call.experience_level.t = "str"
Roles == {PyStr(PythonDeveloper), PyStr(DataScientist)}
LevelsOf(role) ==
    IF role = PyStr(PythonDeveloper) THEN {PyStr(EntryLevel), PyStr(MidLevel)}
    ELSE {PyStr(EntryLevel)}
\* the role and level the claims call resolved
ResolvedRole ==
    IF bank_call.job_role \in Roles THEN bank_call.job_role ELSE PyStr(PythonDeveloper)
ResolvedLevel ==
    IF bank_call.experience_level \in LevelsOf(ResolvedRole)
    THEN bank_call.experience_level ELSE PyStr(EntryLevel)
ResolvedTechnical == questions[ResolvedRole][ResolvedLevel].Technical
ResolvedBehavioral == questions[ResolvedRole][ResolvedLevel].Behavioral
ElementsOf(seq) == {seq[i] : i \in 1..Len(seq)}

\* C6: for str arguments, an unknown job_role with a level unknown under
\* "Python Developer" gives what get_questions("Python Developer",
\* "Entry-level", n) gives, and a known job_role with a level unknown under
\* it gives what that role's "Entry-level" gives.
C6_DefaultSubstitution ==
    (BankCalled /\ StrArgs) =>
        /\ (/\ bank_call.job_role \notin Roles
            /\ bank_call.experience_level \notin LevelsOf(PyStr(PythonDeveloper)))
           => /\ bank_call.result =
                    get_questions(PyStr(PythonDeveloper), PyStr(EntryLevel),
                                  bank_call.num_questions)
              /\ bank_call.result.value =
                    SlicePrefix(TechnicalList("P", "E") \o BehavioralList("P", "E"),
                                bank_call.num_questions)
        /\ (/\ bank_call.job_role \in Roles
            /\ bank_call.experience_level \notin LevelsOf(bank_call.job_role))
           => bank_call.result =
                 get_questions(bank_call.job_role, PyStr(EntryLevel),
                               bank_call.num_questions)

C6_Witness ==
    /\ bank_call.job_role = PyStr(UnknownRole)
    /\ bank_call.experience_level = PyStr(Senior)
    /\ bank_call.num_questions = 5
    /\ bank_call.result.kind = "return"
    /\ bank_call.result.value = SubSeq(TechnicalList("P", "E"), 1, 5)

\* C7 as claimed: for every job_role, experience_level and limit the call
\* does not fail and returns the first limit elements of the resolved
\* Technical list followed by the resolved Behavioral list, so at most limit
\* elements.
C7_AnyLimitFirstElements ==
    BankCalled =>
        /\ bank_call.result.kind = "return"
        /\ Len(bank_call.result.value) <= bank_call.num_questions
        /\ \E k \in 0..15 :
              bank_call.result.value =
                  SubSeq(ResolvedTechnical \o ResolvedBehavioral, 1, k)

\* C7 as amended: for str arguments and a limit of at least 0 the call does
\* not fail and returns the first min(limit, 15) elements of the resolved
\* Technical list followed by the resolved Behavioral list: at most limit
\* elements, every Technical question before every Behavioral one.
C7_FirstLimitTechnicalFirst ==
    (BankCalled /\ StrArgs /\ bank_call.num_questions >= 0) =>
        LET value == bank_call.result.value
            full == ResolvedTechnical \o ResolvedBehavioral
        IN  /\ bank_call.result.kind = "return"
            /\ Len(value) = Min(bank_call.num_questions, Len(full))
            /\ Len(value) <= bank_call.num_questions
            /\ value = SubSeq(full, 1, Len(value))
            /\ \A i, j \in 1..Len(value) :
                  (/\ value[i] \in ElementsOf(ResolvedBehavioral)
                   /\ value[j] \in ElementsOf(ResolvedTechnical)) => j < i

\* C7, the cases the amended claim sets apart: a negative limit returns all
\* but the last -limit elements, and a list argument raises TypeError.
C7_NegativeLimitAndListArguments ==
    /\ (BankCalled /\ StrArgs /\ bank_call.num_questions < 0) =>
           /\ bank_call.result.kind = "return"
           /\ Len(bank_call.result.value) = Max(15 + bank_call.num_questions, 0)
    /\ (BankCalled /\ ~StrArgs) => bank_call.result.exc = "TypeError"

C7_Witness ==
    /\ bank_call.job_role = PyStr(PythonDeveloper)
    /\ bank_call.experience_level = PyStr(MidLevel)
    /\ bank_call.num_questions = 12
    /\ bank_call.result.kind = "return"
    /\ Len(bank_call.result.value) = 12
    /\ bank_call.result.value[10] \in ElementsOf(TechnicalList("P", "M"))
    /\ bank_call.result.value[11] \in ElementsOf(BehavioralList("P", "M"))

(***************************************************************************)
(* Properties of the generator (SpecGen)                                   *)
(***************************************************************************)
Called == gen_call.op # "none"
Returned == gen_call.result.kind = "return"
\* the arguments pass the documented preconditions
NonEmpty(x) == x.v # <<>> \/ x.items # <<>>
ValidInputs(op, a) ==
    /\ NonEmpty(a.job_role) /\ NonEmpty(a.experience_level) /\ NonEmpty(a.skills)
    /\ op = "generate_personalized_questions" => NonEmpty(a.resume_text)
    /\ 1 <= a.num_questions /\ a.num_questions <= 50
\* what the Local Question Bank gives for the arguments of the call
BankAnswer ==
    get_questions(gen_call.args.job_role, gen_call.args.experience_level,
                  gen_call.args.num_questions)
RemoteFailed == gen_call.remote.kind \in {"prompt_error", "api_error"}
LocalOnly == credential \in {"absent", "malformed", "rejected"}

\* C1: with valid inputs, every list a generate call returns has at most
\* num_questions elements, on every path, the built-in default list of
\* _get_local_questions included.
C1_ReturnedLengthWithinNum ==
    (Called /\ ValidInputs(gen_call.op, gen_call.args) /\ Returned)
        => Len(gen_call.result.value) <= gen_call.args.num_questions

\* C2 as claimed: after an error of the remote branch the call returns
\* exactly what the Local Question Bank returns for the same arguments.
C2_ErrorReturnsBankAnswer ==
    (Called /\ RemoteFailed) =>
        /\ Returned
        /\ BankAnswer.kind = "return"
        /\ gen_call.result.value = BankAnswer.value

\* C2 as amended: after an error of the remote branch the call raises
\* nothing and returns what the Local Question Bank returns when that lookup
\* returns, and the five built-in default questions when the lookup raises.
C2_ErrorFallsBackToLocal ==
    (Called /\ RemoteFailed) =>
        /\ Returned
        /\ BankAnswer.kind = "return" => gen_call.result.value = BankAnswer.value
        /\ BankAnswer.kind = "raise" =>
              gen_call.result.value =
                  DefaultQuestions(gen_call.args.job_role, gen_call.args.experience_level)

C2_Witness ==
    /\ gen_call.op = "generate_questions"
    /\ gen_call.remote.kind = "api_error"
    /\ gen_call.remote_calls = 1
    /\ Returned
    /\ BankAnswer.kind = "return"
    /\ gen_call.result.value = BankAnswer.value
    /\ Len(gen_call.result.value) > 0

\* C3: a generate call with valid inputs never returns an empty list; when
\* the remote response holds no usable question the local list is returned.
C3_NeverReturnsEmptyList ==
    (Called /\ ValidInputs(gen_call.op, gen_call.args) /\ Returned) => gen_call.result.value # <<>>

\* C4: a call with an empty job_role, experience_level or skills, or with
\* num_questions below 1 or above 50, raises ValueError before the rate-limit
\* wait, with no remote call and no bank lookup.
C4_RejectsBeforeAnyRemoteCall ==
    (Called /\ ~ValidInputs(gen_call.op, gen_call.args)) =>
        /\ gen_call.result.kind = "raise"
        /\ gen_call.result.exc = "ValueError"
        /\ gen_call.wait_calls = 0 /\ gen_call.slept = 0
        /\ gen_call.remote_calls = 0 /\ gen_call.bank_lookups = 0

C4_Witness ==
    /\ use_api
    /\ gen_call.op = "generate_questions"
    /\ gen_call.args.num_questions = 51
    /\ NonEmpty(gen_call.args.skills)
    /\ gen_call.result.exc = "ValueError"
    /\ gen_call.remote_calls = 0

\* C5 as claimed: in local-only mode no call sends a request, waits for the
\* cooldown or fails on unset mode state, and a valid call returns the Local
\* Question Bank's result.
C5_LocalOnlyReturnsBankAnswer ==
    (LocalOnly /\ Called) =>
        /\ gen_call.remote_calls = 0 /\ gen_call.wait_calls = 0 /\ gen_call.slept = 0
        /\ gen_call.path # "attribute_error"
        /\ ValidInputs(gen_call.op, gen_call.args) =>
              /\ Returned
              /\ BankAnswer.kind = "return"
              /\ gen_call.result.value = BankAnswer.value

\* C5 as amended: in local-only mode no call sends a request, waits for the
\* cooldown or fails on unset mode state, and a valid call returns the Local
\* Question Bank's result when that lookup returns, and the five built-in
\* default questions when the lookup raises.
C5_LocalOnlyStaysLocal ==
    (LocalOnly /\ Called) =>
        /\ gen_call.remote_calls = 0 /\ gen_call.wait_calls = 0 /\ gen_call.slept = 0
        /\ gen_call.path # "attribute_error"
        /\ gen_call.result.exc # "AttributeError"
        /\ ValidInputs(gen_call.op, gen_call.args) =>
              /\ Returned
              /\ BankAnswer.kind = "return" => gen_call.result.value = BankAnswer.value
              /\ BankAnswer.kind = "raise" =>
                    gen_call.result.value =
                        DefaultQuestions(gen_call.args.job_role,
                                         gen_call.args.experience_level)

C5_Witness ==
    /\ credential = "malformed"
    /\ api_key_valid = "unset"
    /\ gen_call.op = "generate_questions"
    /\ gen_call.bank_lookups = 1
    /\ Returned
    /\ BankAnswer.kind = "return"
    /\ gen_call.result.value = BankAnswer.value

(***************************************************************************)
(* Properties of the session store (SpecStore, SpecStoreArgs)              *)
(***************************************************************************)
IsPrefix(a, b) == Len(a) <= Len(b) /\ a = SubSeq(b, 1, Len(a))
Stored == store_call.op = "store_questions"
BlankField(req) == req.job_role = <<>> \/ req.experience_level = <<>> \/ req.skills = <<>>

\* C8: a store never overwrites, removes, reorders or modifies a persisted
\* record: across every step, a store included, the records persisted before
\* it are an unchanged prefix of the records persisted after it.
C8_PersistedPrefixKept ==
    [][IsPrefix(Persisted(file), Persisted(file'))]_vars

\* C9: store_questions with an empty questions list reports failure, leaves
\* the persisted sessions as they were and writes neither the vector index
\* nor the file.
C9_EmptyQuestionsStoreNothing ==
    [][(store_call'.op = "store_questions" /\ store_call'.req.questions = <<>>)
          => /\ store_call'.result.kind = "False"
             /\ store_call'.backend = "none"
             /\ file' = file
             /\ vectorstore' = vectorstore]_vars

C9_Witness ==
    /\ Stored
    /\ store_call.req.questions = <<>>
    /\ store_call.result.kind = "False"
    /\ Len(Persisted(file)) > 0

\* C10: store_questions with an empty job_role, experience_level or skills
\* reports failure and appends no record, even when questions is non-empty.
C10_BlankFieldsRejected ==
    /\ (Stored /\ BlankField(store_call.req)) => store_call.result.kind = "False"
    /\ \A i \in 1..Len(Persisted(file)) : ~BlankField(Persisted(file)[i])

Last(seq) == seq[Len(seq)]
FileWorked(call) == call.rd = "ok" /\ call.wr = "ok"

\* C11: a get_recent_sessions(1) that immediately follows a successful store
\* returns exactly the session that store persisted (stated for a store and
\* a read on which every file operation worked).
C11_RecentReturnsJustStored ==
    [][(/\ store_call.op = "store_questions"
        /\ store_call.result.kind = "True"
        /\ FileWorked(store_call)
        /\ store_call'.op = "get_recent_sessions"
        /\ store_call'.limit = 1
        /\ store_call'.rd = "ok")
          => /\ store_call'.result.kind = "return"
             /\ store_call'.result.value = <<Last(Persisted(file))>>
             /\ store_call'.result.value[1].questions = store_call.req.questions]_vars

\* C12: no two persisted sessions share a session_id, whether the ids were
\* generated or supplied by the caller.
C12_SessionIdsUnique ==
    \A i, j \in 1..Len(Persisted(file)) :
        i # j => Persisted(file)[i].session_id # Persisted(file)[j].session_id

Searched == store_call.op = "search_questions" /\ store_call.rd = "ok"
InResult(entry) ==
    \E i \in 1..Len(store_call.result.value) : store_call.result.value[i] = entry
\* the query is a case-insensitive substring of s
InText(query, s) == Contains(Lower(s), Lower(query))
MatchesField(entry, query) ==
    \/ InText(query, entry.job_role)
    \/ InText(query, entry.experience_level)
    \/ \E i \in 1..Len(entry.skills) : InText(query, entry.skills[i])
FieldMatches(query) ==
    {i \in 1..Len(Persisted(file)) : MatchesField(Persisted(file)[i], query)}

\* C13: a search that read the file returns every persisted session whose
\* job_role, experience_level or some skill contains the query (letter case
\* ignored), whenever those sessions are no more than the limit.
C13_FieldMatchesReturned ==
    (Searched /\ Cardinality(FieldMatches(store_call.query)) <= store_call.limit)
        => \A i \in FieldMatches(store_call.query) : InResult(Persisted(file)[i])

\* the letter-case variants of a query
Letters == {UpperCase[i] : i \in 1..26} \cup {LowerCase[i] : i \in 1..26}
CasesOf(c) == {c} \cup {x \in Letters : LowerChar(x) = LowerChar(c)}
RECURSIVE CaseVariants(_)
CaseVariants(query) ==
    IF query = <<>> THEN {<<>>}
    ELSE {<<c>> \o rest : c \in CasesOf(Head(query)),
                          rest \in CaseVariants(Tail(query))}

\* C14: a search returns what a search of the same file with any other letter
\* case of the query returns: the same sessions in the same order.
C14_QueryCaseIgnored ==
    store_call.op = "search_questions"
        => \A q \in CaseVariants(store_call.query) :
              store_call.result.value
                  = search_questions_locally(q, store_call.limit, store_call.rd)
C14_Witness ==
    /\ Searched
    /\ store_call.query = <<"S","q","L">>
    /\ Len(store_call.result.value) = 2
    /\ store_call.result.value[1] # store_call.result.value[2]

\* the score the claim gives a session: 3 for the role, 2 for the skills
\* however many match, 1 for every question
ClaimScore(entry, query) ==
    (IF InText(query, entry.job_role) THEN 3 ELSE 0)
    + (IF \E i \in 1..Len(entry.skills) : InText(query, entry.skills[i])
       THEN 2 ELSE 0)
    + Cardinality({i \in 1..Len(entry.questions) : InText(query, entry.questions[i])})
\* the sessions that come before session i of data in the claim's order:
\* a higher score, or the same score and stored earlier
Before(data, query, i) ==
    {j \in 1..Len(data) :
        /\ ClaimScore(data[j], query) > 0
        /\ \/ ClaimScore(data[j], query) > ClaimScore(data[i], query)
           \/ ClaimScore(data[j], query) = ClaimScore(data[i], query) /\ j < i}
Scoring(data, query) == {i \in 1..Len(data) : ClaimScore(data[i], query) > 0}

\* C15: a search that read the file returns min(limit, number of sessions
\* scoring above 0) sessions, and the k-th returned is the scoring session
\* that has exactly k - 1 scoring sessions before it in the order "higher
\* score first, equal scores in insertion order".
C15_ScoredOrder ==
    Searched =>
        LET data == Persisted(file)
            query == store_call.query
            res == store_call.result.value
        IN  /\ Len(res) = Min(store_call.limit, Cardinality(Scoring(data, query)))
            /\ \A k \in 1..Len(res) :
                 \E i \in Scoring(data, query) :
                    /\ Cardinality(Before(data, query, i)) = k - 1
                    /\ res[k] = data[i]
\* two sessions score 5 and one scores 3: the two come in insertion order
C15_Witness ==
    /\ Searched
    /\ store_call.limit = 2
    /\ Len(Persisted(file)) = 3
    /\ Len(store_call.result.value) = 2
    /\ ClaimScore(Persisted(file)[1], store_call.query) = 3
    /\ ClaimScore(Persisted(file)[2], store_call.query) = 5
    /\ ClaimScore(Persisted(file)[3], store_call.query) = 5
    /\ Persisted(file)[2] # Persisted(file)[3]
    /\ store_call.result.value = <<Persisted(file)[2], Persisted(file)[3]>>

AskedRecent == store_call.op = "get_recent_sessions" /\ store_call.rd = "ok"

\* C16: get_recent_sessions(limit) that read the file returns min(limit,
\* number of persisted sessions) of the persisted sessions, each at most as
\* often as it is persisted, in descending order of timestamp, and no session
\* left out has a greater timestamp than one returned.
C16_RecentByTimestamp ==
    AskedRecent =>
        LET data == Persisted(file)
            res == store_call.result.value
        IN  /\ Len(res) = Min(store_call.limit, Len(data))
            /\ \A k, l \in 1..Len(res) :
                 k < l => res[k].timestamp >= res[l].timestamp
            /\ \E idx \in [1..Len(res) -> 1..Len(data)] :
                 /\ \A k, l \in 1..Len(res) : k # l => idx[k] # idx[l]
                 /\ \A k \in 1..Len(res) : res[k] = data[idx[k]]
                 /\ \A j \in 1..Len(data) :
                      (\A k \in 1..Len(res) : idx[k] # j)
                          => \A k \in 1..Len(res) :
                                data[j].timestamp <= res[k].timestamp
C16_Witness ==
    /\ AskedRecent
    /\ store_call.limit = 1
    /\ Len(Persisted(file)) = 2
    /\ Persisted(file)[1].timestamp < Persisted(file)[2].timestamp
    /\ store_call.result.value = <<Persisted(file)[2]>>

\* C17: the vector index has failed at initialization, whether the service
\* was reachable or not, and the engine is on the flat file from then on: no
\* call raises, an accepted store whose file operations worked returns True
\* with its record appended to the file, and a search that read the file
\* returns sessions of the file that the flat-file search scores above 0.
\* (A step that leaves the clock alone and shows a store is that store.)
C17_FallsBackToFlatFile ==
    [][/\ use_local_storage' = "True"
       /\ store_call'.result.kind # "raise"
       /\ store_call'.backend # "vector"
       /\ vectorstore' = <<>>
       /\ (/\ store_call'.op = "store_questions"
           /\ clock' = clock
           /\ AcceptsQuestions(store_call'.req)
           /\ FileWorked(store_call'))
             => /\ store_call'.result.kind = "True"
                /\ store_call'.backend = "file"
                /\ Len(Persisted(file')) = Len(Persisted(file)) + 1
                /\ IsPrefix(Persisted(file), Persisted(file'))
                /\ Last(Persisted(file')).questions = store_call'.req.questions
                /\ Last(Persisted(file')).job_role = store_call'.req.job_role
       /\ (store_call'.op = "search_questions" /\ store_call'.rd = "ok")
             => /\ store_call'.backend = "file"
                /\ store_call'.result.kind = "return"
                /\ \A i \in 1..Len(store_call'.result.value) :
                      \E j \in 1..Len(Persisted(file)) :
                         /\ store_call'.result.value[i] = Persisted(file)[j]
                         /\ ClaimScore(Persisted(file)[j], store_call'.query) > 0]_vars
C17_Witness ==
    /\ use_local_storage = "True"
    /\ Stored
    /\ FileWorked(store_call)
    /\ store_call.backend = "file"
    /\ store_call.result.kind = "True"
    /\ Len(Persisted(file)) = 2
    /\ Last(Persisted(file)).questions = store_call.req.questions

\* C18: a store that returns success has its record in the persisted file:
\* the last persisted record carries the request's questions, job_role,
\* experience_level and skills.  (A failed write must not report success.)
C18_SuccessMeansPersisted ==
    (Stored /\ store_call.result.kind = "True")
        => /\ Len(Persisted(file)) > 0
           /\ Last(Persisted(file)).questions = store_call.req.questions
           /\ Last(Persisted(file)).job_role = store_call.req.job_role
           /\ Last(Persisted(file)).experience_level = store_call.req.experience_level
           /\ Last(Persisted(file)).skills = store_call.req.skills

Queried == store_call.op \in {"search_questions", "get_recent_sessions"}
Unreadable(call) == call.rd # "ok" \/ file.state # "ok"

\* C19: search_questions and get_recent_sessions never raise: each returns a
\* list of persisted sessions, and the empty list when the file cannot be
\* read or holds nothing json.load can parse.
C19_QueriesNeverRaise ==
    Queried =>
        /\ store_call.result.kind = "return"
        /\ \A i \in 1..Len(store_call.result.value) :
              \E j \in 1..Len(Persisted(file)) :
                  store_call.result.value[i] = Persisted(file)[j]
        /\ Unreadable(store_call) => store_call.result.value = <<>>
\* a search and a listing of a file that a failed json.dump left truncated
C19_Witness ==
    /\ Queried
    /\ file.state = "corrupt"
    /\ store_call.rd = "ok"
    /\ store_call.result.kind = "return"
    /\ store_call.result.value = <<>>

(***************************************************************************)
(* The rate limit of the generator (SpecGenTime)                           *)
(***************************************************************************)
SentRequest == gen_call.remote_calls = 1
AfterEarlierRequest == gen_call.prev_remote_end >= 0

\* C20: a remote call that follows an earlier one starts at least min_delay
\* after the earlier one finished, however long the earlier one took.
C20_CooldownFromEndOfPreviousCall ==
    (SentRequest /\ AfterEarlierRequest)
        => gen_call.remote_start >= gen_call.prev_remote_end + min_delay


(***************************************************************************)
(* The chain of parsers of the remote response (SpecGen)                   *)
(***************************************************************************)
GotText == Called /\ gen_call.remote_calls = 1 /\ gen_call.remote.kind = "str"
\* the text from the first "[" to the last "]", when there is one
HasBracketed(text) == Find(text, "[") >= 0 /\ RFind(text, "]") + 1 > Find(text, "[")
Bracketed(text) == json_loads(Slice(text, Find(text, "["), RFind(text, "]") + 1))
ParsesAsListOfStr(text) ==
    HasBracketed(text) /\ Bracketed(text).kind = "return"
        /\ IsListOfStr(Bracketed(text).value)
ByLines(text, num_questions) == SlicePrefix(ExtractLines(text), num_questions)

\* C21: when the response has a "[" and a later "]" but the text between
\* them is no list of strings, the call returns the line-based extraction of
\* the response, truncated to num_questions, and does not use the bank.
C21_BracketFailureGoesToLines ==
    (GotText /\ HasBracketed(gen_call.remote.text)
             /\ ~ParsesAsListOfStr(gen_call.remote.text))
        => /\ gen_call.bank_lookups = 0
           /\ gen_call.result.kind = "return"
           /\ gen_call.result.value
                = ByLines(gen_call.remote.text, gen_call.args.num_questions)


\* a line without its leading list marker, as the claim reads it: a leading
\* "- " or leading digits followed by "." are dropped, the rest is kept
RECURSIVE LeadingDigits(_)
LeadingDigits(line) ==
    IF line # <<>> /\ Head(line) \in DigitSet THEN 1 + LeadingDigits(Tail(line)) ELSE 0
WithoutLeadingMarker(line) ==
    LET k == LeadingDigits(line)
    IN  IF StartsWithAt(line, 1, <<"-", " ">>) THEN Strip(Slice(line, 2, Len(line)))
        ELSE IF k > 0 /\ k < Len(line) /\ line[k + 1] = "."
             THEN Strip(Slice(line, k + 1, Len(line)))
        ELSE line
LinesWithoutLeadingMarker(text) ==
    NonEmptyOnly(MapSeq(NonEmptyOnly(MapSeq(SplitLines(text), Strip)),
                        WithoutLeadingMarker))

\* C22: a response without a bracketed list gives its non-blank lines, each
\* trimmed and without its leading list marker and otherwise unchanged,
\* truncated to num_questions.
C22_OnlyLeadingMarkerRemoved ==
    (GotText /\ ~HasBracketed(gen_call.remote.text))
        => /\ gen_call.result.kind = "return"
           /\ gen_call.result.value
                = SlicePrefix(LinesWithoutLeadingMarker(gen_call.remote.text),
                              gen_call.args.num_questions)


\* The whole response read as a JSON object: its "key": value pairs in order,
\* or failure when the text is no object.
RECURSIVE ObjectPairs(_, _, _)
ObjectPairs(s, i, acc) ==
    IF i > Len(s) \/ s[i] # "\"" THEN Fail
    ELSE LET k == ScanString(s, i + 1, <<>>)
             c == IF k.ok THEN SkipWs(s, k.next) ELSE 0
             r == IF k.ok /\ c <= Len(s) /\ s[c] = ":"
                  THEN ScanValue(s, SkipWs(s, c + 1)) ELSE Fail
             j == IF r.ok THEN SkipWs(s, r.next) ELSE 0
             pairs == IF r.ok THEN Append(acc, [key |-> k.val.v, val |-> r.val]) ELSE acc
         IN  IF ~r.ok \/ j > Len(s) THEN Fail
             ELSE IF s[j] = "}" THEN Ok(pairs, j + 1)
             ELSE IF s[j] = "," THEN ObjectPairs(s, SkipWs(s, j + 1), pairs)
             ELSE Fail
WholeObject(text) ==
    LET i == SkipWs(text, 1)
        j == SkipWs(text, i + 1)
        r == IF i > Len(text) \/ text[i] # "{" \/ j > Len(text) THEN Fail
             ELSE IF text[j] = "}" THEN Ok(<<>>, j + 1)
             ELSE ObjectPairs(text, j, <<>>)
    IN  IF r.ok /\ SkipWs(text, r.next) = Len(text) + 1 THEN r ELSE Fail
QuestionsKey == <<"q","u","e","s","t","i","o","n","s">>
\* the object's questions field is a list of strings
IsQuestionSet(text) ==
    /\ WholeObject(text).ok
    /\ \E p \in 1..Len(WholeObject(text).val) :
          /\ WholeObject(text).val[p].key = QuestionsKey
          /\ IsListOfStr(WholeObject(text).val[p].val)
          /\ \A q \in (p + 1)..Len(WholeObject(text).val) :
                WholeObject(text).val[q].key # QuestionsKey
QuestionsOf(text) ==
    LET pairs == WholeObject(text).val
        p == CHOOSE p \in 1..Len(pairs) :
                 /\ pairs[p].key = QuestionsKey
                 /\ \A q \in (p + 1)..Len(pairs) : pairs[q].key # QuestionsKey
    IN  Texts(pairs[p].val)

\* C23: when the whole response is an object whose questions field is a list
\* of strings, the call returns that list truncated to num_questions,
\* whatever other fields the object has.
C23_QuestionSetReturned ==
    (GotText /\ IsQuestionSet(gen_call.remote.text))
        => /\ gen_call.result.kind = "return"
           /\ gen_call.result.value
                = SlicePrefix(QuestionsOf(gen_call.remote.text),
                              gen_call.args.num_questions)


(***************************************************************************)
(* Two unsynchronised writers (SpecRace)                                   *)
(***************************************************************************)
BothReturned == \A p \in Writers : writers.proc[p].pc = "done"
Holds(p) ==
    \E i \in 1..Len(Persisted(file)) : Persisted(file)[i].session_id = WriterId(p)

\* C24: when both stores have returned, both returned success; both records
\* are in the file exactly when the two read-modify-write sequences did not
\* overlap, and otherwise one of the two records is missing.
C24_LostUpdateIffOverlap ==
    BothReturned =>
        /\ \A p \in Writers : writers.proc[p].result.kind = "True"
        /\ \E p \in Writers : Holds(p)
        /\ (\A p \in Writers : Holds(p)) <=> ~writers.overlapped
\* the lost update: both returned success, one record is in the file
C24_Witness ==
    /\ BothReturned
    /\ \A p \in Writers : writers.proc[p].result.kind = "True"
    /\ writers.overlapped
    /\ \E p \in Writers : ~Holds(p)


(***************************************************************************)
(* The generator's mode (SpecGen)                                          *)
(***************************************************************************)
RemoteBacked == use_api /\ api_key_valid = "True"
Attempted(call) == call.wait_calls = 1 /\ call.path # "local_only"

\* C25: no generate call changes use_api or api_key_valid, and a
\* remote-backed generator takes the remote branch on every call whose
\* arguments pass the checks, whatever the earlier calls met.
C25_ModeFixedAtConstruction ==
    [][/\ use_api' = use_api
       /\ api_key_valid' = api_key_valid
       /\ (RemoteBacked /\ Rejection(gen_call'.op, gen_call'.args) = "none")
             => Attempted(gen_call')
       /\ ~use_api => ~Attempted(gen_call')]_vars
\* a call that went to the remote service right after one whose request failed
C25_Witness ==
    /\ RemoteBacked
    /\ gen_call.prev_path = "api_fallback"
    /\ Attempted(gen_call)
    /\ gen_call.remote_calls = 1


(***************************************************************************)
(* The front ends (SpecFront)                                              *)
(***************************************************************************)
Requested == front.endpoint # "none"
MissingRoleOrLevel(a) == a.job_role.v = <<>> \/ a.experience_level.v = <<>>
Position(steps, name) ==
    IF \E i \in 1..Len(steps) : steps[i] = name
    THEN CHOOSE i \in 1..Len(steps) : steps[i] = name ELSE 0

\* C26: a request without job_role or experience_level is answered with an
\* error and reaches neither the generator nor the store; the store is
\* called at most once, after the generator returned a non-empty list; the
\* questions in the response are the ones given to the store.
C26_ValidateGenerateStoreRespond ==
    Requested =>
        /\ MissingRoleOrLevel(front.args)
              => /\ front.response = "error"
                 /\ front.generator_calls = 0
                 /\ front.store_calls = 0
        /\ front.store_calls <= 1
        /\ front.store_calls = 1
              => /\ front.generated.kind = "return"
                 /\ front.generated.value # <<>>
                 /\ 0 < Position(front.steps, "generate")
                 /\ Position(front.steps, "generate") < Position(front.steps, "store")
                 /\ Position(front.steps, "store") < Position(front.steps, "respond")
        /\ front.response = "questions"
              => /\ front.store_calls = 1
                 /\ front.shown = front.stored


\* C27: a call of generate_questions or generate_personalized_questions that
\* does not raise returns a list, also when the completion result is not a
\* string; it never returns None.
C27_ReturnsListOnEveryPath ==
    (Called /\ gen_call.result.kind # "raise") => gen_call.result.kind = "return"


(***************************************************************************)
(* The backend switch (SpecStore)                                          *)
(***************************************************************************)
OnFlatFile == use_local_storage = "True"
UsesVector(call) == call.backend = "vector"

\* C28: the switch to the flat file is one-way: once use_local_storage is
\* true, every later step leaves it true, the store or search it shows did
\* not use the vector backend, and nothing is added to the vector index.
C28_SwitchIsOneWay ==
    [][OnFlatFile =>
          /\ use_local_storage' = "True"
          /\ ~UsesVector(store_call')
          /\ vectorstore' = vectorstore
          /\ store_call'.op \in {"store_questions", "search_questions"}
                /\ store_call' # store_call
                /\ store_call'.result.kind \in {"True", "return"}
                => store_call'.backend = "file"]_vars
\* a store on the flat file after get_recent_sessions was answered from a
\* file that already held a session
C28_Witness ==
    /\ OnFlatFile
    /\ store_call.op = "get_recent_sessions"
    /\ store_call.backend = "file"
    /\ Len(store_call.result.value) = 1
    /\ Len(Persisted(file)) = 2

ReadOnlyCall(call) == call.op \in {"search_questions", "get_recent_sessions"}
C30_QueriesLeaveFileAlone ==
    [][(ReadOnlyCall(store_call') /\ clock' = clock)
          => /\ file' = file
             /\ Persisted(file') = Persisted(file)]_vars
\* get_recent_sessions returned two sessions in an order that is not the
\* file's: its copy was sorted, the file was not
C30_Witness ==
    /\ store_call.op = "get_recent_sessions"
    /\ Len(store_call.result.value) = 2
    /\ Len(Persisted(file)) = 2
    /\ store_call.result.value # Persisted(file)
=============================================================================
